---- MODULE Spec2Model ----
(***************************************************************************)
(* The Transaction type of sdk/src/transaction/mod.rs: structural          *)
(* sanitization, the signing entry points layered on                       *)
(* try_partial_sign_unchecked, and signature verification.                 *)
(*                                                                         *)
(* Indices are 0-based as in the source; Get(s, i) reads element i of a    *)
(* sequence the way a slice index does.                                    *)
(***************************************************************************)
EXTENDS Integers, Sequences, FiniteSets, TLC

VARIABLES tx, last

vars == <<tx, last>>

(***************************************************************************)
(* Bounds of the model.                                                    *)
(***************************************************************************)
\* longest account_keys list
MaxAccountKeys == 2
\* most instructions in a message
MaxInstructions == 1
\* most key pairs handed to one signing call
MaxKeypairs == 2
\* most positions handed to one try_partial_sign_unchecked call
MaxPositions == 1
\* instructions of a message whose instructions are scanned one by one
MaxScanned == 2

\* Public keys (account identifiers); every one also names a key pair.
Pubkeys == {1, 2}
\* Blockhashes; DefaultHash is Hash::default().
DefaultHash == 0
Hashes == {DefaultHash, 1}

(***************************************************************************)
(* Sequences                                                               *)
(***************************************************************************)
SeqsUpTo(S, n) == UNION {[1..k -> S] : k \in 0..n}

Get(s, i) == s[i + 1]

Min(a, b) == IF a < b THEN a ELSE b

RECURSIVE Concat(_)
Concat(ss) == IF ss = <<>> THEN <<>> ELSE Head(ss) \o Concat(Tail(ss))

HasDuplicates(s) == \E i, j \in DOMAIN s : i < j /\ s[i] = s[j]

(***************************************************************************)
(* Results: Ok(val) or Err(err).  A panic is an Err whose err is "panic".  *)
(***************************************************************************)
Ok(v) == [ok |-> TRUE, err |-> "", val |-> v]
Err(e) == [ok |-> FALSE, err |-> e, val |-> <<>>]
Panic == Err("panic")

\* Option<usize>
None == <<>>
Some(i) == <<i>>

(***************************************************************************)
(* Message serialization and signatures                                    *)
(***************************************************************************)
\* bincode layout of a CompiledInstruction: program_id_index, short_vec of
\* account indices, short_vec of data bytes
SerializeInstruction(ci) ==
    <<ci.program_id_index, Len(ci.accounts)>> \o ci.accounts
        \o <<Len(ci.data)>> \o ci.data

\* Message::serialize: header, short_vec account_keys, recent_blockhash,
\* short_vec instructions
Serialize(m) ==
    <<m.header.num_required_signatures,
      m.header.num_readonly_signed_accounts,
      m.header.num_readonly_unsigned_accounts,
      Len(m.account_keys)>> \o m.account_keys
        \o <<m.recent_blockhash, Len(m.instructions)>>
        \o Concat([i \in DOMAIN m.instructions |->
                      SerializeInstruction(m.instructions[i])])

message_data(t) == Serialize(t.message)

\* Signature::default(), the all-zero sentinel
SignatureDefault == <<0>>

\* Keypair::sign_message: ed25519 is deterministic, the signature is a
\* function of the signing key and the signed bytes
SignMessage(k, bytes) == <<k>> \o bytes

\* Signature::verify(pubkey, message_bytes)
SignatureVerify(sig, pubkey, bytes) == sig = SignMessage(pubkey, bytes)

(***************************************************************************)
(* Transactions                                                            *)
(***************************************************************************)
Header(nrs, nros, nrou) ==
    [num_required_signatures |-> nrs,
     num_readonly_signed_accounts |-> nros,
     num_readonly_unsigned_accounts |-> nrou]

Message(header, keys, hash, instructions) ==
    [header |-> header, account_keys |-> keys,
     recent_blockhash |-> hash, instructions |-> instructions]

Transaction(signatures, message) ==
    [signatures |-> signatures, message |-> message]

\* Transaction::new_unsigned
new_unsigned(message) ==
    Transaction([i \in 1..message.header.num_required_signatures |->
                    SignatureDefault],
                message)

(***************************************************************************)
(* Sanitizer                                                               *)
(***************************************************************************)
\* Sanitize for Message: header counts, then every instruction's indices in
\* instruction order, then duplicate account keys.  Every rejection the
\* tests assert is IndexOutOfBounds; the error kind of a duplicate key is
\* not documented, InvalidValue stands for it.
InstructionSanitize(ci, nkeys) ==
    IF ci.program_id_index >= nkeys THEN Err("IndexOutOfBounds")
    ELSE IF ci.program_id_index = 0 THEN Err("IndexOutOfBounds")
    ELSE IF \E a \in DOMAIN ci.accounts : ci.accounts[a] >= nkeys
         THEN Err("IndexOutOfBounds")
    ELSE Ok(<<>>)

MessageSanitize(m) ==
    IF m.header.num_required_signatures + m.header.num_readonly_unsigned_accounts
           > Len(m.account_keys)
    THEN Err("IndexOutOfBounds")
    ELSE IF m.header.num_readonly_signed_accounts >= m.header.num_required_signatures
    THEN Err("IndexOutOfBounds")
    ELSE IF \E i \in DOMAIN m.instructions :
                ~InstructionSanitize(m.instructions[i], Len(m.account_keys)).ok
    THEN Err("IndexOutOfBounds")
    ELSE IF HasDuplicates(m.account_keys) THEN Err("InvalidValue")
    ELSE Ok(<<>>)

\* sanitize without the check of signatures against num_required_signatures
sanitize_skip_required(t) ==
    IF Len(t.signatures) > Len(t.message.account_keys)
    THEN [Err("IndexOutOfBounds") EXCEPT !.val = <<"signatures_le_keys">>]
    ELSE [MessageSanitize(t.message) EXCEPT
             !.val = <<"signatures_le_keys", "message_sanitize">>]

\* sanitize without the check of signatures against account_keys
sanitize_skip_keys(t) ==
    IF t.message.header.num_required_signatures > Len(t.signatures)
    THEN [Err("IndexOutOfBounds") EXCEPT !.val = <<"required_le_signatures">>]
    ELSE [MessageSanitize(t.message) EXCEPT
             !.val = <<"required_le_signatures", "message_sanitize">>]

\* sanitize with the two length checks in the opposite order
sanitize_swapped(t) ==
    IF Len(t.signatures) > Len(t.message.account_keys)
    THEN [Err("IndexOutOfBounds") EXCEPT !.val = <<"signatures_le_keys">>]
    ELSE IF t.message.header.num_required_signatures > Len(t.signatures)
    THEN [Err("IndexOutOfBounds") EXCEPT
             !.val = <<"signatures_le_keys", "required_le_signatures">>]
    ELSE [MessageSanitize(t.message) EXCEPT
             !.val = <<"signatures_le_keys", "required_le_signatures",
                       "message_sanitize">>]

\* sanitize that never consults the message
sanitize_lengths_only(t) ==
    IF t.message.header.num_required_signatures > Len(t.signatures)
    THEN [Err("IndexOutOfBounds") EXCEPT !.val = <<"required_le_signatures">>]
    ELSE IF Len(t.signatures) > Len(t.message.account_keys)
    THEN [Err("IndexOutOfBounds") EXCEPT
             !.val = <<"required_le_signatures", "signatures_le_keys">>]
    ELSE [Ok(<<>>) EXCEPT
             !.val = <<"required_le_signatures", "signatures_le_keys">>]

\* impl Sanitize for Transaction.  val |-> the checks evaluated, in order.
sanitize(t) ==
    IF t.message.header.num_required_signatures > Len(t.signatures)
    THEN [Err("IndexOutOfBounds") EXCEPT !.val = <<"required_le_signatures">>]
    ELSE IF Len(t.signatures) > Len(t.message.account_keys)
    THEN [Err("IndexOutOfBounds") EXCEPT
             !.val = <<"required_le_signatures", "signatures_le_keys">>]
    ELSE [MessageSanitize(t.message) EXCEPT
             !.val = <<"required_le_signatures", "signatures_le_keys",
                       "message_sanitize">>]

\* impl From<SanitizeError> for TransactionError
FromSanitizeError(e) == "SanitizeFailure"

\* every SanitizeMessageError collapsed into SanitizeFailure
FromSanitizeMessageError_collapsed(e) == "SanitizeFailure"

\* impl From<SanitizeMessageError> for TransactionError
FromSanitizeMessageError(e) ==
    IF e \in {"IndexOutOfBounds", "ValueOutOfBounds", "InvalidValue"}
    THEN "SanitizeFailure"
    ELSE "AccountLoadedTwice"

SanitizeErrors == {"IndexOutOfBounds", "ValueOutOfBounds", "InvalidValue"}
SanitizeMessageErrors ==
    {"IndexOutOfBounds", "ValueOutOfBounds", "InvalidValue", "DuplicateAccountKey"}

(***************************************************************************)
(* Verifier                                                                *)
(***************************************************************************)
\* Transaction::_verify_with_results: zip pairs signatures with account_keys
\* and stops at the shorter of the two
_verify_with_results(t, message_bytes) ==
    [i \in 1..Min(Len(t.signatures), Len(t.message.account_keys)) |->
        SignatureVerify(t.signatures[i], t.message.account_keys[i], message_bytes)]

verify_with_results(t) == _verify_with_results(t, message_data(t))

\* Transaction::verify
verify(t) ==
    LET results == _verify_with_results(t, message_data(t))
    IN  IF \A i \in DOMAIN results : results[i]
        THEN Ok(<<>>)
        ELSE Err("SignatureFailure")

\* Message::hash_raw_message: the digest of the bytes, taken as free of
\* collisions
hash_raw_message(message_bytes) == [hash |-> message_bytes]

\* verify_and_hash_message without the signature check
verify_and_hash_message_unchecked(t) ==
    Ok(hash_raw_message(message_data(t)))

\* Transaction::verify_and_hash_message
verify_and_hash_message(t) ==
    LET message_bytes == message_data(t)
        results == _verify_with_results(t, message_bytes)
    IN  IF \A i \in DOMAIN results : results[i]
        THEN Ok(hash_raw_message(message_bytes))
        ELSE Err("SignatureFailure")

\* Transaction::verify_signatures_len
verify_signatures_len(t) ==
    Len(t.signatures) = t.message.header.num_required_signatures

(***************************************************************************)
(* Received transactions: any value the deserializer can produce, within   *)
(* the bounds.                                                             *)
(***************************************************************************)
IndexValues == 0..MaxAccountKeys

\* an instruction's account list: empty or one index
AccountLists == {<<>>} \cup {<<a>> : a \in IndexValues}

CompiledInstructions ==
    [program_id_index : IndexValues, accounts : AccountLists, data : {<<>>}]

Headers ==
    [num_required_signatures : 0..MaxAccountKeys,
     num_readonly_signed_accounts : {0, 1},
     num_readonly_unsigned_accounts : {0}]

WireMessages ==
    [header : Headers,
     account_keys : SeqsUpTo(Pubkeys, MaxAccountKeys),
     recent_blockhash : {DefaultHash},
     instructions : SeqsUpTo(CompiledInstructions, MaxInstructions)]

\* every slot of a received transaction is the sentinel or key 1's signature
\* of the message
WireSignatures(m) ==
    SeqsUpTo({SignatureDefault, SignMessage(1, Serialize(m))}, MaxAccountKeys)

NoCall == [op |-> "none", args |-> <<>>, pre |-> <<>>, result |-> Ok(<<>>)]

Call(op, args, pre, result) ==
    [op |-> op, args |-> args, pre |-> pre, result |-> result]

InitWire ==
    /\ \E m \in WireMessages :
          \E sigs \in WireSignatures(m) : tx = Transaction(sigs, m)
    /\ last = NoCall

Sanitize ==
    /\ last = NoCall
    /\ last' = Call("sanitize", <<>>, tx, sanitize(tx))
    /\ UNCHANGED tx

VerifyWithResults ==
    /\ last = NoCall
    /\ last' = Call("verify_with_results", <<>>, tx, Ok(verify_with_results(tx)))
    /\ UNCHANGED tx

Verify ==
    /\ last = NoCall
    /\ last' = Call("verify", <<>>, tx, verify(tx))
    /\ UNCHANGED tx

VerifyAndHashMessage ==
    /\ last = NoCall
    /\ last' = Call("verify_and_hash_message", <<>>, tx, verify_and_hash_message(tx))
    /\ UNCHANGED tx

\* a failed sanitize propagated with `?` into a Result<_, TransactionError>
IntoTransactionError ==
    /\ last.op = "sanitize"
    /\ ~last.result.ok
    /\ last' = Call("from_sanitize_error", <<last.result.err>>, tx,
                    Err(FromSanitizeError(last.result.err)))
    /\ UNCHANGED tx

\* a SanitizeMessageError propagated with `?`
MessageErrorIntoTransactionError ==
    /\ last = NoCall
    /\ \E e \in SanitizeMessageErrors :
          last' = Call("from_sanitize_message_error", <<e>>, tx,
                       Err(FromSanitizeMessageError(e)))
    /\ UNCHANGED tx

NextWire ==
    \/ Sanitize
    \/ VerifyWithResults
    \/ Verify

SpecWire == InitWire /\ [][NextWire]_vars

\* a received transaction handed to the three verifying entry points
NextVerify ==
    \/ VerifyWithResults
    \/ Verify
    \/ VerifyAndHashMessage

SpecVerify == InitWire /\ [][NextVerify]_vars

(***************************************************************************)
(* Signers                                                                 *)
(***************************************************************************)
Keypair(k) == [kind |-> "keypair", pubkey |-> k, signature |-> SignatureDefault]

\* Presigner::new(pubkey, signature)
Presigner(k, sig) == [kind |-> "presigner", pubkey |-> k, signature |-> sig]

\* Signer::try_sign_message: a key pair signs the bytes; a presigner hands
\* out its stored signature if it verifies over the bytes and fails otherwise
SignerTrySignMessage(signer, bytes) ==
    IF signer.kind = "keypair"
    THEN Ok(SignMessage(signer.pubkey, bytes))
    ELSE IF SignatureVerify(signer.signature, signer.pubkey, bytes)
    THEN Ok(signer.signature)
    ELSE Err("PresignerError")

\* Signers::pubkeys
pubkeys(keypairs) == [i \in DOMAIN keypairs |-> keypairs[i].pubkey]

\* Signers::try_sign_message: the signatures of all signers in order, or the
\* first signer's failure
try_sign_message(keypairs, bytes) ==
    LET results == [i \in DOMAIN keypairs |->
                       SignerTrySignMessage(keypairs[i], bytes)]
        failed == {i \in DOMAIN keypairs : ~results[i].ok}
    IN  IF failed /= {}
        THEN Err(results[CHOOSE i \in failed : \A j \in failed : i <= j].err)
        ELSE Ok([i \in DOMAIN keypairs |-> results[i].val])

(***************************************************************************)
(* Signer                                                                  *)
(***************************************************************************)
\* is_signed that also wants every signature to verify under its key
is_signed_and_verifies(t) ==
    /\ \A i \in DOMAIN t.signatures : t.signatures[i] /= SignatureDefault
    /\ \A i \in 1..Min(Len(t.signatures), Len(t.message.account_keys)) :
          SignatureVerify(t.signatures[i], t.message.account_keys[i],
                          message_data(t))

\* Transaction::is_signed
is_signed(t) ==
    \A i \in DOMAIN t.signatures : t.signatures[i] /= SignatureDefault

\* slice.iter().position(|x| x == pubkey)
Position(keys, pubkey) ==
    IF \E j \in DOMAIN keys : keys[j] = pubkey
    THEN Some((CHOOSE j \in DOMAIN keys :
                  /\ keys[j] = pubkey
                  /\ \A l \in DOMAIN keys : keys[l] = pubkey => j <= l) - 1)
    ELSE None

\* get_signing_keypair_positions searching all of account_keys
get_signing_keypair_positions_all_keys(t, pks) ==
    IF Len(t.message.account_keys) < t.message.header.num_required_signatures
    THEN Err("InvalidAccountIndex")
    ELSE Ok([i \in DOMAIN pks |-> Position(t.message.account_keys, pks[i])])

\* Transaction::get_signing_keypair_positions
get_signing_keypair_positions(t, pks) ==
    IF Len(t.message.account_keys) < t.message.header.num_required_signatures
    THEN Err("InvalidAccountIndex")
    ELSE LET signed_keys == SubSeq(t.message.account_keys, 1,
                                   t.message.header.num_required_signatures)
         IN  Ok([i \in DOMAIN pks |-> Position(signed_keys, pks[i])])

\* the slots dropped, not overwritten, on a new blockhash
ResetOnNewBlockhash_drop_slots(t, recent_blockhash) ==
    IF recent_blockhash /= t.message.recent_blockhash
    THEN [t EXCEPT !.message.recent_blockhash = recent_blockhash,
                   !.signatures = <<>>]
    ELSE t

\* the signatures cleared whether or not the blockhash is new
ResetOnNewBlockhash_always(t, recent_blockhash) ==
    [t EXCEPT !.message.recent_blockhash = recent_blockhash,
              !.signatures = [i \in DOMAIN t.signatures |-> SignatureDefault]]

\* the blockhash overwritten, the signatures kept
ResetOnNewBlockhash_keep_signatures(t, recent_blockhash) ==
    [t EXCEPT !.message.recent_blockhash = recent_blockhash]

\* the `if recent_blockhash != self.message.recent_blockhash` block
ResetOnNewBlockhash(t, recent_blockhash) ==
    IF recent_blockhash /= t.message.recent_blockhash
    THEN [t EXCEPT !.message.recent_blockhash = recent_blockhash,
                   !.signatures = [i \in DOMAIN t.signatures |-> SignatureDefault]]
    ELSE t

\* the loop stopping after the first position
WriteSignatures_first_only(t, positions, signatures, i) ==
    IF Len(positions) = 0
    THEN [tx |-> t, result |-> Ok(<<>>)]
    ELSE IF Len(signatures) = 0 \/ Get(positions, 0) >= Len(t.signatures)
    THEN [tx |-> t, result |-> Panic]
    ELSE [tx |-> [t EXCEPT !.signatures[Get(positions, 0) + 1] =
                               Get(signatures, 0)],
          result |-> Ok(<<>>)]

\* the loop `for i in 0..positions.len()`, from iteration i on: an index
\* outside signatures or self.signatures panics, the writes made so far stay
RECURSIVE WriteSignatures(_, _, _, _)
WriteSignatures(t, positions, signatures, i) ==
    IF i >= Len(positions)
    THEN [tx |-> t, result |-> Ok(<<>>)]
    ELSE IF i >= Len(signatures) \/ Get(positions, i) >= Len(t.signatures)
    THEN [tx |-> t, result |-> Panic]
    ELSE WriteSignatures(
             [t EXCEPT !.signatures[Get(positions, i) + 1] = Get(signatures, i)],
             positions, signatures, i + 1)

\* try_partial_sign_unchecked that asks the signers before it touches the
\* transaction, and leaves it alone when they fail
try_partial_sign_unchecked_sign_first(t, keypairs, positions, recent_blockhash) ==
    LET t1 == ResetOnNewBlockhash(t, recent_blockhash)
        signatures == try_sign_message(keypairs, message_data(t1))
    IN  IF ~signatures.ok
        THEN [tx |-> t, result |-> Err(signatures.err)]
        ELSE WriteSignatures(t1, positions, signatures.val, 0)

\* try_partial_sign_unchecked that writes the signatures first and handles
\* the new blockhash afterwards
try_partial_sign_unchecked_reset_last(t, keypairs, positions, recent_blockhash) ==
    LET signatures == try_sign_message(keypairs,
            Serialize([t.message EXCEPT !.recent_blockhash = recent_blockhash]))
    IN  IF ~signatures.ok
        THEN [tx |-> ResetOnNewBlockhash(t, recent_blockhash),
              result |-> Err(signatures.err)]
        ELSE LET w == WriteSignatures(t, positions, signatures.val, 0)
             IN  [tx |-> ResetOnNewBlockhash(w.tx, recent_blockhash),
                  result |-> w.result]

\* try_partial_sign_unchecked signing the bytes serialized before the
\* blockhash is overwritten
try_partial_sign_unchecked_early_bytes(t, keypairs, positions, recent_blockhash) ==
    LET t1 == ResetOnNewBlockhash(t, recent_blockhash)
        signatures == try_sign_message(keypairs, message_data(t))
    IN  IF ~signatures.ok
        THEN [tx |-> t1, result |-> Err(signatures.err)]
        ELSE WriteSignatures(t1, positions, signatures.val, 0)

\* Transaction::try_partial_sign_unchecked
try_partial_sign_unchecked(t, keypairs, positions, recent_blockhash) ==
    LET t1 == ResetOnNewBlockhash(t, recent_blockhash)
        signatures == try_sign_message(keypairs, message_data(t1))
    IN  IF ~signatures.ok
        THEN [tx |-> t1, result |-> Err(signatures.err)]
        ELSE WriteSignatures(t1, positions, signatures.val, 0)

\* try_partial_sign writing the signatures in the order of the key pairs
try_partial_sign_in_order(t, keypairs, recent_blockhash) ==
    LET positions == get_signing_keypair_positions(t, pubkeys(keypairs))
    IN  IF ~positions.ok
        THEN [tx |-> t, result |-> Err(positions.err)]
        ELSE IF \E i \in DOMAIN positions.val : positions.val[i] = None
        THEN [tx |-> t, result |-> Err("KeypairPubkeyMismatch")]
        ELSE try_partial_sign_unchecked(
                 t, keypairs, [i \in DOMAIN positions.val |-> i - 1],
                 recent_blockhash)

\* try_partial_sign that overwrites the blockhash before it looks up the
\* positions
try_partial_sign_reset_first(t, keypairs, recent_blockhash) ==
    LET t1 == ResetOnNewBlockhash(t, recent_blockhash)
        positions == get_signing_keypair_positions(t1, pubkeys(keypairs))
    IN  IF ~positions.ok
        THEN [tx |-> t1, result |-> Err(positions.err)]
        ELSE IF \E i \in DOMAIN positions.val : positions.val[i] = None
        THEN [tx |-> t1, result |-> Err("KeypairPubkeyMismatch")]
        ELSE try_partial_sign_unchecked(
                 t1, keypairs,
                 [i \in DOMAIN positions.val |-> Get(positions.val[i], 0)],
                 recent_blockhash)

\* Transaction::try_partial_sign
try_partial_sign(t, keypairs, recent_blockhash) ==
    LET positions == get_signing_keypair_positions(t, pubkeys(keypairs))
    IN  IF ~positions.ok
        THEN [tx |-> t, result |-> Err(positions.err)]
        ELSE IF \E i \in DOMAIN positions.val : positions.val[i] = None
        THEN [tx |-> t, result |-> Err("KeypairPubkeyMismatch")]
        ELSE try_partial_sign_unchecked(
                 t, keypairs,
                 [i \in DOMAIN positions.val |-> Get(positions.val[i], 0)],
                 recent_blockhash)

\* try_sign without the is_signed test
try_sign_no_signed_test(t, keypairs, recent_blockhash) ==
    try_partial_sign(t, keypairs, recent_blockhash)

\* Transaction::try_sign
try_sign(t, keypairs, recent_blockhash) ==
    LET r == try_partial_sign(t, keypairs, recent_blockhash)
    IN  IF ~r.result.ok THEN r
        ELSE IF ~is_signed(r.tx)
        THEN [tx |-> r.tx, result |-> Err("NotEnoughSigners")]
        ELSE [tx |-> r.tx, result |-> Ok(<<>>)]

(***************************************************************************)
(* Transactions under construction: new_unsigned(message), then any        *)
(* sequence of signing calls and queries.                                  *)
(***************************************************************************)
UnsignedMessages ==
    [header : [num_required_signatures : 0..MaxAccountKeys,
               num_readonly_signed_accounts : {0},
               num_readonly_unsigned_accounts : {0}],
     account_keys : SeqsUpTo(Pubkeys, MaxAccountKeys),
     recent_blockhash : {DefaultHash},
     instructions : {<<>>}]

\* The signers a caller holds: the key pair of every public key, and a
\* presigner for key 2 that holds key 2's signature of the message as it
\* is under the default blockhash.
Signers(t) ==
    {Keypair(k) : k \in Pubkeys} \cup
    {Presigner(2, SignMessage(2,
        Serialize([t.message EXCEPT !.recent_blockhash = DefaultHash])))}

SignArgs(keypairs, positions, recent_blockhash) ==
    [keypairs |-> keypairs, positions |-> positions,
     recent_blockhash |-> recent_blockhash]

Init ==
    /\ \E m \in UnsignedMessages : tx = new_unsigned(m)
    /\ last = NoCall

TrySign ==
    /\ last = NoCall
    /\ \E keypairs \in SeqsUpTo(Signers(tx), MaxKeypairs), h \in Hashes :
          LET r == try_sign(tx, keypairs, h)
          IN  /\ tx' = r.tx
              /\ last' = Call("try_sign", SignArgs(keypairs, <<>>, h), tx, r.result)

TryPartialSign ==
    /\ last = NoCall
    /\ \E keypairs \in SeqsUpTo(Signers(tx), MaxKeypairs), h \in Hashes :
          LET r == try_partial_sign(tx, keypairs, h)
          IN  /\ tx' = r.tx
              /\ last' = Call("try_partial_sign", SignArgs(keypairs, <<>>, h),
                              tx, r.result)

TryPartialSignUnchecked ==
    /\ last = NoCall
    /\ \E keypairs \in SeqsUpTo(Signers(tx), MaxKeypairs),
          positions \in SeqsUpTo(0..Len(tx.signatures), MaxPositions),
          h \in Hashes :
          LET r == try_partial_sign_unchecked(tx, keypairs, positions, h)
          IN  /\ tx' = r.tx
              /\ last' = Call("try_partial_sign_unchecked",
                              SignArgs(keypairs, positions, h), tx, r.result)

GetSigningKeypairPositions ==
    /\ last = NoCall
    /\ \E pks \in SeqsUpTo(Pubkeys, MaxKeypairs) :
          last' = Call("get_signing_keypair_positions", pks, tx,
                       get_signing_keypair_positions(tx, pks))
    /\ UNCHANGED tx

IsSigned ==
    /\ last = NoCall
    /\ last' = Call("is_signed", <<>>, tx, Ok(is_signed(tx)))
    /\ UNCHANGED tx

\* the caller takes the call's result; the transaction stays as the call
\* left it
Return ==
    /\ last /= NoCall
    /\ last' = NoCall
    /\ UNCHANGED tx

Next ==
    \/ TrySign
    \/ TryPartialSign
    \/ TryPartialSignUnchecked
    \/ GetSigningKeypairPositions
    \/ IsSigned
    \/ Sanitize
    \/ IntoTransactionError
    \/ MessageErrorIntoTransactionError
    \/ Return

Spec == Init /\ [][Next]_vars

\* only the position-checked entry points
NextChecked ==
    \/ TrySign
    \/ TryPartialSign
    \/ GetSigningKeypairPositions
    \/ Return

SpecChecked == Init /\ [][NextChecked]_vars

(***************************************************************************)
(* Precompile verification                                                 *)
(***************************************************************************)
\* the program id of a precompiled program
PrecompileProgramId == 3

\* the precompile's own verification of an instruction's data: a function
\* of the data; here the first byte decides, 0 or no byte passing
PrecompileVerify(data) ==
    IF Len(data) = 0 \/ data[1] = 0 THEN Ok(<<>>)
    ELSE IF data[1] = 1 THEN Err("InvalidSignature")
    ELSE Err("InvalidDataOffsets")

\* verify_if_precompile: the instruction of an active precompile is
\* verified by it, any other instruction passes; feature_set tells whether
\* the precompile is active
verify_if_precompile(program_id, instruction, instructions, feature_set) ==
    IF program_id = PrecompileProgramId /\ feature_set
    THEN PrecompileVerify(instruction.data)
    ELSE Ok(<<>>)

\* the loop `for instruction in &self.message().instructions`, from
\* instruction i on
RECURSIVE ScanPrecompiles(_, _, _)
ScanPrecompiles(t, feature_set, i) ==
    IF i >= Len(t.message.instructions)
    THEN Ok(<<>>)
    ELSE LET instruction == Get(t.message.instructions, i)
         IN  IF instruction.program_id_index >= Len(t.message.account_keys)
             THEN Err("AccountNotFound")
             ELSE LET program_id == Get(t.message.account_keys,
                                        instruction.program_id_index)
                  IN  IF ~verify_if_precompile(program_id, instruction,
                              t.message.instructions, feature_set).ok
                      THEN Err("InvalidAccountIndex")
                      ELSE ScanPrecompiles(t, feature_set, i + 1)

\* verify_precompiles testing every program_id_index before it verifies
\* any instruction
verify_precompiles_range_first(t, feature_set) ==
    IF \E i \in DOMAIN t.message.instructions :
          t.message.instructions[i].program_id_index >= Len(t.message.account_keys)
    THEN Err("AccountNotFound")
    ELSE ScanPrecompiles(t, feature_set, 0)

\* Transaction::verify_precompiles
verify_precompiles(t, feature_set) == ScanPrecompiles(t, feature_set, 0)

\* the instructions given to verify_precompiles: any program index, in
\* range or not, data the precompile accepts or rejects
ScannedInstructions ==
    [program_id_index : IndexValues, accounts : {<<>>},
     data : {<<0>>, <<1>>, <<2>>}]

ScannedMessages ==
    [header : [num_required_signatures : {0},
               num_readonly_signed_accounts : {0},
               num_readonly_unsigned_accounts : {0}],
     account_keys : SeqsUpTo({1, PrecompileProgramId}, MaxAccountKeys),
     recent_blockhash : {DefaultHash},
     instructions : SeqsUpTo(ScannedInstructions, MaxScanned)]

InitPrecompiles ==
    /\ \E m \in ScannedMessages : tx = Transaction(<<>>, m)
    /\ last = NoCall

VerifyPrecompiles ==
    /\ last = NoCall
    /\ \E feature_set \in BOOLEAN :
          last' = Call("verify_precompiles", <<feature_set>>, tx,
                       verify_precompiles(tx, feature_set))
    /\ UNCHANGED tx

NextPrecompiles == VerifyPrecompiles

SpecPrecompiles == InitPrecompiles /\ [][NextPrecompiles]_vars

(***************************************************************************)
(* Nonce detector                                                          *)
(***************************************************************************)
\* the index of the instruction that marks a durable-nonce transaction
NONCED_TX_MARKER_IX_INDEX == 0

\* system_program::id()
SystemProgramId == 4

\* the variant tag SystemInstruction::AdvanceNonceAccount is encoded with
AdvanceNonceAccountTag == 4

\* limited_deserialize::<SystemInstruction>: the first byte read is the
\* variant tag; no byte to read, or a tag of no variant, fails
limited_deserialize(data) ==
    IF Len(data) = 0 THEN Err("InvalidInstructionData")
    ELSE IF data[1] = AdvanceNonceAccountTag THEN Ok("AdvanceNonceAccount")
    ELSE IF data[1] = 2 THEN Ok("Transfer")
    ELSE Err("InvalidInstructionData")

\* Message::is_writable: index i is in the writable part of the signer
\* prefix or in the writable part of the rest of account_keys
is_writable(m, i) ==
    \/ i < m.header.num_required_signatures - m.header.num_readonly_signed_accounts
    \/ /\ i >= m.header.num_required_signatures
       /\ i < Len(m.account_keys) - m.header.num_readonly_unsigned_accounts

\* the closure given to filter
IsNonceMarker(m, instruction) ==
    /\ instruction.program_id_index < Len(m.account_keys)
    /\ Get(m.account_keys, instruction.program_id_index) = SystemProgramId
    /\ limited_deserialize(instruction.data) = Ok("AdvanceNonceAccount")
    /\ Len(instruction.accounts) > 0
    /\ is_writable(m, Get(instruction.accounts, 0))

\* uses_durable_nonce searching all instructions
uses_durable_nonce_search(t) ==
    LET m == t.message
        found == {i \in DOMAIN m.instructions : IsNonceMarker(m, m.instructions[i])}
    IN  IF found = {} THEN None
        ELSE Some(m.instructions[CHOOSE i \in found : \A j \in found : i <= j])

\* uses_durable_nonce
uses_durable_nonce(t) ==
    LET m == t.message
    IN  IF NONCED_TX_MARKER_IX_INDEX >= Len(m.instructions)
        THEN None
        ELSE LET instruction == Get(m.instructions, NONCED_TX_MARKER_IX_INDEX)
             IN  IF IsNonceMarker(m, instruction)
                 THEN Some(instruction)
                 ELSE None

\* the instructions given to the nonce detector: any program index and
\* first account index, in range or not; data that does not decode, that
\* decodes to Transfer, that decodes to AdvanceNonceAccount
NonceInstructions ==
    [program_id_index : IndexValues, accounts : AccountLists,
     data : {<<>>, <<2>>, <<AdvanceNonceAccountTag>>}]

\* headers whose counts fit account_keys
NonceHeaders(keys) ==
    {h \in [num_required_signatures : 0..Len(keys),
            num_readonly_signed_accounts : {0, 1},
            num_readonly_unsigned_accounts : {0, 1}] :
        /\ h.num_readonly_signed_accounts <= h.num_required_signatures
        /\ h.num_readonly_unsigned_accounts
               <= Len(keys) - h.num_required_signatures}

\* the instruction lists: up to MaxInstructions instructions, and the lists
\* of one instruction followed by an advance-nonce instruction
NonceInstructionLists ==
    SeqsUpTo(NonceInstructions, MaxInstructions) \cup
    {<<first, second>> :
        first \in NonceInstructions,
        second \in {c \in NonceInstructions : c.data = <<AdvanceNonceAccountTag>>}}

InitNonce ==
    /\ \E keys \in SeqsUpTo({1, SystemProgramId}, MaxAccountKeys) :
          \E h \in NonceHeaders(keys) :
             \E instructions \in NonceInstructionLists :
                tx = Transaction(<<>>,
                        Message(h, keys, DefaultHash, instructions))
    /\ last = NoCall

UsesDurableNonce ==
    /\ last = NoCall
    /\ last' = Call("uses_durable_nonce", <<>>, tx, Ok(uses_durable_nonce(tx)))
    /\ UNCHANGED tx

NextNonce == UsesDurableNonce

SpecNonce == InitNonce /\ [][NextNonce]_vars

(***************************************************************************)
(* A received transaction handed to the position-checked signing entry     *)
(* points.                                                                 *)
(***************************************************************************)
NextWireSign ==
    \/ TrySign
    \/ TryPartialSign

SpecWireSign == InitWire /\ [][NextWireSign]_vars

(***************************************************************************)
(* Multi-pass signing: new_unsigned(message), then try_partial_sign calls  *)
(* that all use one blockhash.  last records the passes made so far: pre   *)
(* is the unsigned transaction, args.keypairs the set of public keys of    *)
(* all key pairs passed, result the first failure, Ok while none failed.   *)
(***************************************************************************)
PartialSignPass ==
    \E keypairs \in SeqsUpTo(Signers(tx), MaxKeypairs), h \in Hashes :
        /\ last = NoCall \/ (last.op = "passes" /\ h = last.args.recent_blockhash)
        /\ LET r == try_partial_sign(tx, keypairs, h)
               first == last = NoCall
               used == IF first THEN {} ELSE last.args.keypairs
           IN  /\ tx' = r.tx
               /\ last' = Call("passes",
                     SignArgs(used \cup {keypairs[k].pubkey : k \in DOMAIN keypairs},
                              <<>>, h),
                     IF first THEN tx ELSE last.pre,
                     IF first \/ last.result.ok THEN r.result ELSE last.result)

NextPasses == PartialSignPass

SpecPasses == Init /\ [][NextPasses]_vars

(***************************************************************************)
(* Claims about the sanitizer (checked under SpecWire)                     *)
(***************************************************************************)
NumRequired(t) == t.message.header.num_required_signatures
NumSignatures(t) == Len(t.signatures)
NumKeys(t) == Len(t.message.account_keys)

\* some instruction of t refers to an account index outside account_keys
HasIndexOutOfRange(t) ==
    \E i \in DOMAIN t.message.instructions :
        LET ci == t.message.instructions[i]
        IN  \/ ci.program_id_index >= NumKeys(t)
            \/ \E a \in DOMAIN ci.accounts : ci.accounts[a] >= NumKeys(t)

\* C1: sanitize returns Ok exactly when num_required_signatures <=
\* signatures.len() <= account_keys.len() and the message's sanitize returns
\* Ok; the check against num_required_signatures is evaluated first, the
\* check against account_keys second, the message's sanitize only when both
\* pass; the transaction is left as it was.
C1_SanitizeContract ==
    last.op = "sanitize" =>
        LET t == last.pre
        IN  /\ last.result.ok <=>
                  /\ NumRequired(t) <= NumSignatures(t)
                  /\ NumSignatures(t) <= NumKeys(t)
                  /\ MessageSanitize(t.message).ok
            /\ last.result.val =
                  IF NumRequired(t) > NumSignatures(t)
                  THEN <<"required_le_signatures">>
                  ELSE IF NumSignatures(t) > NumKeys(t)
                  THEN <<"required_le_signatures", "signatures_le_keys">>
                  ELSE <<"required_le_signatures", "signatures_le_keys",
                         "message_sanitize">>
            /\ tx = t

C1_Witness ==
    /\ last.op = "sanitize"
    /\ last.result.ok
    /\ NumSignatures(tx) = 2
    /\ Len(tx.message.instructions) = 1

\* C2 as stated: every transaction on which sanitize returns Ok has
\* signatures.len() = num_required_signatures.
C2_SanitizedHasRequiredCount ==
    (last.op = "sanitize" /\ last.result.ok) =>
        NumSignatures(tx) = NumRequired(tx)

\* C2 amended: every transaction on which sanitize returns Ok has
\* num_required_signatures <= signatures.len() <= account_keys.len(); a
\* transaction with fewer signatures than required is rejected, one with
\* more is accepted when the message is sane, and then
\* verify_signatures_len is false.
C2_SanitizedCountInRange ==
    last.op = "sanitize" =>
        /\ last.result.ok =>
              /\ NumRequired(tx) <= NumSignatures(tx)
              /\ NumSignatures(tx) <= NumKeys(tx)
        /\ NumSignatures(tx) < NumRequired(tx) => ~last.result.ok
        /\ (/\ NumRequired(tx) < NumSignatures(tx)
            /\ NumSignatures(tx) <= NumKeys(tx)
            /\ MessageSanitize(tx.message).ok)
              => (last.result.ok /\ ~verify_signatures_len(tx))

C2_Witness ==
    /\ last.op = "sanitize"
    /\ last.result.ok
    /\ NumSignatures(tx) > NumRequired(tx)

\* C3: on a transaction that passes sanitize, verify_with_results returns
\* exactly signatures.len() results, one per signature slot i paired with
\* account_keys[i], and verify succeeds only if every slot verifies.
C3_NoTruncationWhenSanitized ==
    (last.op \in {"verify_with_results", "verify"} /\ sanitize(tx).ok) =>
        LET every == \A i \in DOMAIN tx.signatures :
                        /\ i <= NumKeys(tx)
                        /\ SignatureVerify(tx.signatures[i],
                                           tx.message.account_keys[i],
                                           message_data(tx))
        IN  /\ last.op = "verify_with_results" =>
                  Len(last.result.val) = NumSignatures(tx)
            /\ last.op = "verify" => (last.result.ok <=> every)

C3_Witness ==
    /\ last.op = "verify_with_results"
    /\ sanitize(tx).ok
    /\ NumSignatures(tx) = 2
    /\ Len(last.result.val) = 2

\* C4 as stated: every conversion of a SanitizeError or a
\* SanitizeMessageError gives TransactionError::SanitizeFailure.
C4_EveryCauseIsSanitizeFailure ==
    last.op \in {"from_sanitize_error", "from_sanitize_message_error"} =>
        last.result.err = "SanitizeFailure"

\* C4 amended: every SanitizeError, and the SanitizeMessageError causes
\* IndexOutOfBounds, ValueOutOfBounds and InvalidValue, convert to
\* SanitizeFailure; DuplicateAccountKey converts to AccountLoadedTwice.
C4_CausesCollapseButDuplicateKey ==
    /\ last.op = "from_sanitize_error" => last.result.err = "SanitizeFailure"
    /\ last.op = "from_sanitize_message_error" =>
          last.result.err =
              IF Get(last.args, 0) = "DuplicateAccountKey"
              THEN "AccountLoadedTwice"
              ELSE "SanitizeFailure"

C4_Witness ==
    /\ last.op = "from_sanitize_message_error"
    /\ Get(last.args, 0) = "DuplicateAccountKey"
    /\ last.result.err = "AccountLoadedTwice"

\* C5: when some instruction's program_id_index or account index is >=
\* account_keys.len(), sanitize fails with SanitizeError::IndexOutOfBounds,
\* also when both signature-length checks pass.
C5_IndexOutOfRangeRejected ==
    (last.op = "sanitize" /\ HasIndexOutOfRange(tx)) =>
        (~last.result.ok /\ last.result.err = "IndexOutOfBounds")

C5_Witness ==
    /\ last.op = "sanitize"
    /\ HasIndexOutOfRange(tx)
    /\ NumRequired(tx) <= NumSignatures(tx)
    /\ NumSignatures(tx) <= NumKeys(tx)
    /\ NumKeys(tx) = 2
    /\ last.result.err = "IndexOutOfBounds"

(***************************************************************************)
(* Claims about the signer (checked under Spec and SpecChecked)            *)
(***************************************************************************)
CheckedOps == {"try_sign", "try_partial_sign"}
SigningOps == CheckedOps \cup {"try_partial_sign_unchecked"}

\* the signer prefix account_keys[0 .. num_required_signatures], as far as
\* account_keys reaches
SignerPrefix(t) == SubSeq(t.message.account_keys, 1, Min(NumRequired(t), NumKeys(t)))

InPrefix(t, pubkey) ==
    \E i \in DOMAIN SignerPrefix(t) : SignerPrefix(t)[i] = pubkey

\* the call made last got as far as try_partial_sign_unchecked
ReachedPrimitive ==
    \/ last.op = "try_partial_sign_unchecked"
    \/ /\ last.op \in CheckedOps
       /\ last.result.err \notin {"InvalidAccountIndex", "KeypairPubkeyMismatch"}

\* the positions the call made last had to write, 0-based
CallPositions ==
    IF last.op = "try_partial_sign_unchecked"
    THEN {last.args.positions[i] : i \in DOMAIN last.args.positions}
    ELSE {i \in 0..(NumRequired(last.pre) - 1) :
             \E k \in DOMAIN last.args.keypairs :
                 /\ last.args.keypairs[k].pubkey = Get(last.pre.message.account_keys, i)
                 /\ \A j \in 0..(i - 1) :
                        Get(last.pre.message.account_keys, j)
                            /= last.args.keypairs[k].pubkey}

BlockhashChanged ==
    last.args.recent_blockhash /= last.pre.message.recent_blockhash

\* a signature some key made of the message as tx has it now
Fresh(sig) == \E k \in Pubkeys : sig = SignMessage(k, message_data(tx))

Reverse(s) == [i \in DOMAIN s |-> s[Len(s) + 1 - i]]

\* C6: get_signing_keypair_positions fails, with InvalidAccountIndex, exactly
\* when account_keys.len() < num_required_signatures; otherwise entry k of
\* its result is None when pubkeys[k] is not in the signer prefix and else
\* Some(i), i the first 0-based index of pubkeys[k] in the prefix; the
\* result has the length and order of pubkeys.
C6_SigningKeypairPositions ==
    last.op = "get_signing_keypair_positions" =>
        LET pks == last.args
            keys == tx.message.account_keys
            found(pk) == {i \in 0..(NumRequired(tx) - 1) : Get(keys, i) = pk}
        IN  /\ tx = last.pre
            /\ ~last.result.ok <=> NumKeys(tx) < NumRequired(tx)
            /\ ~last.result.ok => last.result.err = "InvalidAccountIndex"
            /\ last.result.ok =>
                  /\ Len(last.result.val) = Len(pks)
                  /\ \A k \in DOMAIN pks :
                        IF found(pks[k]) = {}
                        THEN last.result.val[k] = None
                        ELSE /\ last.result.val[k] /= None
                             /\ Get(last.result.val[k], 0) \in found(pks[k])
                             /\ \A j \in found(pks[k]) :
                                    Get(last.result.val[k], 0) <= j

C6_Witness ==
    /\ last.op = "get_signing_keypair_positions"
    /\ tx.message.account_keys = <<1, 2>>
    /\ NumRequired(tx) = 1
    /\ last.args = <<2, 1>>
    /\ last.result = Ok(<<None, Some(0)>>)

\* C7: a signing call that reaches try_partial_sign_unchecked with a
\* recent_blockhash other than the stored one stores the given blockhash,
\* and afterwards every slot that is not the sentinel is one of the call's
\* positions and holds a signature this call made of the new message; all
\* other slots hold the sentinel, whoever signed them before.
C7_NewBlockhashClearsSignatures ==
    (last.op \in SigningOps /\ ReachedPrimitive /\ BlockhashChanged) =>
        /\ tx.message.recent_blockhash = last.args.recent_blockhash
        /\ Len(tx.signatures) = Len(last.pre.signatures)
        /\ \A j \in DOMAIN tx.signatures :
              tx.signatures[j] /= SignatureDefault =>
                  /\ (j - 1) \in CallPositions
                  /\ last.result.err /= "PresignerError"
                  /\ \E k \in DOMAIN last.args.keypairs :
                        tx.signatures[j] =
                            SignMessage(last.args.keypairs[k].pubkey, message_data(tx))

\* a call with no key pairs and a new blockhash, on a transaction with a
\* signed slot
C7_Witness ==
    /\ last.op = "try_partial_sign"
    /\ last.result.ok
    /\ BlockhashChanged
    /\ last.args.keypairs = <<>>
    /\ \E j \in DOMAIN last.pre.signatures :
          last.pre.signatures[j] /= SignatureDefault
    /\ \A j \in DOMAIN tx.signatures : tx.signatures[j] = SignatureDefault

\* C8: in every state reached from new_unsigned(message) by signing calls,
\* every slot that is not the sentinel holds a signature made of the
\* serialized message as it is now, with its current recent_blockhash.
C8_NoStaleSignature ==
    \A j \in DOMAIN tx.signatures :
        tx.signatures[j] /= SignatureDefault => Fresh(tx.signatures[j])

\* a slot signed again after a blockhash change cleared an earlier signature
C8_Witness ==
    /\ last.op \in SigningOps
    /\ BlockhashChanged
    /\ \E j \in DOMAIN tx.signatures :
          /\ last.pre.signatures[j] /= SignatureDefault
          /\ tx.signatures[j] /= SignatureDefault
          /\ tx.signatures[j] /= last.pre.signatures[j]

\* C9: in every state reached from new_unsigned(message) by try_sign and
\* try_partial_sign calls, every slot i that is not the sentinel holds the
\* signature of the message by the key pair of account_keys[i]; passing the
\* key pairs in the opposite order gives the same transaction.
C9_SlotsArePositional ==
    /\ \A j \in DOMAIN tx.signatures :
          tx.signatures[j] /= SignatureDefault =>
              /\ j <= NumRequired(tx)
              /\ j <= NumKeys(tx)
              /\ tx.signatures[j] =
                     SignMessage(tx.message.account_keys[j], message_data(tx))
    /\ last.op = "try_partial_sign" =>
          tx = try_partial_sign(last.pre, Reverse(last.args.keypairs),
                                last.args.recent_blockhash).tx

\* key pairs passed in the opposite order of their account_keys
C9_Witness ==
    /\ last.op = "try_partial_sign"
    /\ tx.message.account_keys = <<1, 2>>
    /\ pubkeys(last.args.keypairs) = <<2, 1>>
    /\ tx.signatures = <<SignMessage(1, message_data(tx)),
                         SignMessage(2, message_data(tx))>>

\* some key pair of the checked call made last is absent from the signer
\* prefix
SomeKeypairAbsent ==
    /\ last.op \in CheckedOps
    /\ \E k \in DOMAIN last.args.keypairs :
          ~InPrefix(last.pre, last.args.keypairs[k].pubkey)

\* C10 as stated: a try_sign / try_partial_sign call with a key pair absent
\* from the signer prefix fails with KeypairPubkeyMismatch and leaves the
\* transaction as it was.
C10_MismatchLeavesTransaction ==
    SomeKeypairAbsent =>
        /\ last.result = Err("KeypairPubkeyMismatch")
        /\ tx = last.pre

\* C10 amended: such a call fails and leaves the transaction as it was; the
\* failure is KeypairPubkeyMismatch when account_keys.len() >=
\* num_required_signatures, and InvalidAccountIndex when account_keys is
\* shorter than that.
C10_AbsentKeyLeavesTransaction ==
    SomeKeypairAbsent =>
        /\ last.result =
              IF NumKeys(last.pre) >= NumRequired(last.pre)
              THEN Err("KeypairPubkeyMismatch")
              ELSE Err("InvalidAccountIndex")
        /\ tx = last.pre

\* a matching and an absent key pair, a new blockhash, a signed slot
C10_Witness ==
    /\ SomeKeypairAbsent
    /\ last.result = Err("KeypairPubkeyMismatch")
    /\ BlockhashChanged
    /\ \E k \in DOMAIN last.args.keypairs :
          InPrefix(last.pre, last.args.keypairs[k].pubkey)
    /\ \E j \in DOMAIN tx.signatures : tx.signatures[j] /= SignatureDefault

\* C11: try_sign returns Ok exactly when try_partial_sign with the same
\* arguments succeeds and afterwards no slot holds the sentinel; when
\* try_partial_sign succeeds and some slot holds the sentinel it returns
\* NotEnoughSigners; when try_partial_sign fails it returns that failure.
C11_TrySignResult ==
    last.op = "try_sign" =>
        LET p == try_partial_sign(last.pre, last.args.keypairs,
                                  last.args.recent_blockhash)
            sentinel_left ==
                \E j \in DOMAIN tx.signatures : tx.signatures[j] = SignatureDefault
        IN  /\ tx = p.tx
            /\ last.result.ok <=> (p.result.ok /\ ~sentinel_left)
            /\ (p.result.ok /\ sentinel_left) =>
                   last.result = Err("NotEnoughSigners")
            /\ ~p.result.ok => last.result = p.result

\* no key pairs given for a transaction with a required signer
C11_Witness ==
    /\ last.op = "try_sign"
    /\ last.args.keypairs = <<>>
    /\ NumRequired(last.pre) >= 1
    /\ NumKeys(last.pre) >= NumRequired(last.pre)
    /\ last.result = Err("NotEnoughSigners")

\* C12: is_signed() returns true exactly when no entry of signatures is the
\* sentinel: true for an empty list, false as soon as one slot holds the
\* sentinel, whatever the message is and whether or not the signatures
\* verify; the transaction is not modified.
C12_IsSigned ==
    last.op = "is_signed" =>
        /\ tx = last.pre
        /\ last.result.ok
        /\ last.result.val =
              ({j \in 1..Len(tx.signatures) :
                   tx.signatures[j] = SignatureDefault} = {})
        /\ Len(tx.signatures) = 0 => last.result.val

\* a slot that is not the sentinel and does not verify under its key
C12_Witness ==
    /\ last.op = "is_signed"
    /\ last.result.val
    /\ \E j \in DOMAIN tx.signatures :
          /\ j <= NumKeys(tx)
          /\ ~SignatureVerify(tx.signatures[j], tx.message.account_keys[j],
                              message_data(tx))

\* C13: after a try_partial_sign or try_sign call, the same call again
\* (same key pairs, same recent_blockhash) leaves the transaction as the
\* first call left it: same signatures in every slot, same message.
C13_SigningIdempotent ==
    last.op \in CheckedOps =>
        LET again ==
                IF last.op = "try_sign"
                THEN try_sign(tx, last.args.keypairs, last.args.recent_blockhash)
                ELSE try_partial_sign(tx, last.args.keypairs,
                                      last.args.recent_blockhash)
        IN  /\ again.tx.signatures = tx.signatures
            /\ again.tx.message = tx.message

\* a first call that changed the blockhash, cleared a signed slot and
\* signed a slot
C13_Witness ==
    /\ last.op \in CheckedOps
    /\ BlockhashChanged
    /\ last.args.keypairs /= <<>>
    /\ \E j \in DOMAIN tx.signatures :
          /\ last.pre.signatures[j] /= SignatureDefault
          /\ tx.signatures[j] = SignatureDefault
    /\ \E j \in DOMAIN tx.signatures : tx.signatures[j] /= SignatureDefault
    /\ tx.message /= last.pre.message

\* the signer prefix of t holds n >= 1 distinct keys
DistinctSignerPrefix(t) ==
    /\ NumRequired(t) >= 1
    /\ NumKeys(t) >= NumRequired(t)
    /\ \A i, j \in DOMAIN SignerPrefix(t) :
          SignerPrefix(t)[i] = SignerPrefix(t)[j] => i = j

\* C14: for a transaction built by new_unsigned whose signer prefix holds
\* n >= 1 distinct keys, after any sequence of successful try_partial_sign
\* calls that all use one blockhash, is_signed() is true exactly when the
\* key pairs used so far cover every key of the signer prefix, and when it
\* is true verify() succeeds.
C14_MultiPassSigningCompletes ==
    (last.op = "passes" /\ last.result.ok /\ DistinctSignerPrefix(last.pre)) =>
        /\ is_signed(tx) <=>
              \A i \in DOMAIN SignerPrefix(tx) :
                  SignerPrefix(tx)[i] \in last.args.keypairs
        /\ is_signed(tx) => verify(tx) = Ok(<<>>)

\* two signers, fully signed, by passes under a blockhash other than the
\* one the message was built with
C14_Witness ==
    /\ last.op = "passes"
    /\ last.result.ok
    /\ DistinctSignerPrefix(last.pre)
    /\ NumRequired(tx) = 2
    /\ last.args.recent_blockhash /= DefaultHash
    /\ is_signed(tx)
    /\ verify(tx).ok

\* C15: try_sign, try_partial_sign and try_partial_sign_unchecked return
\* Ok or a typed error and never panic, for every transaction (also one
\* whose signatures list is shorter than num_required_signatures) and
\* every argument.
C15_SigningNeverPanics ==
    last.op \in SigningOps => last.result /= Panic

(***************************************************************************)
(* Claims about the verifier (checked under SpecVerify)                     *)
(***************************************************************************)
\* signatures[i - 1] is account_keys[i - 1]'s signature of the serialized
\* message
PairVerifies(t, i) ==
    SignatureVerify(t.signatures[i], t.message.account_keys[i],
                    Serialize(t.message))

CheckedPairs(t) == 1..Min(NumSignatures(t), NumKeys(t))

\* C16: verify() returns Ok exactly when for every i < min(signatures.len(),
\* account_keys.len()) signatures[i] verifies under account_keys[i] over
\* the serialized message, and SignatureFailure otherwise;
\* verify_and_hash_message() succeeds on exactly those transactions, with
\* the hash of those bytes; verify_with_results() returns exactly those
\* per-pair booleans; none of the three modifies the transaction.
C16_VerifiersAgree ==
    LET all_verify == \A i \in CheckedPairs(tx) : PairVerifies(tx, i)
    IN  /\ last.op = "verify" =>
              /\ tx = last.pre
              /\ last.result =
                    IF all_verify THEN Ok(<<>>) ELSE Err("SignatureFailure")
        /\ last.op = "verify_and_hash_message" =>
              /\ tx = last.pre
              /\ last.result =
                    IF all_verify
                    THEN Ok(hash_raw_message(Serialize(tx.message)))
                    ELSE Err("SignatureFailure")
        /\ last.op = "verify_with_results" =>
              /\ tx = last.pre
              /\ last.result.ok
              /\ DOMAIN last.result.val = CheckedPairs(tx)
              /\ \A i \in CheckedPairs(tx) :
                    last.result.val[i] = PairVerifies(tx, i)

\* more signatures than keys, the checked pair verifies, the rest is not
\* looked at
C16_Witness ==
    /\ last.op = "verify_and_hash_message"
    /\ last.result.ok
    /\ NumKeys(tx) = 1
    /\ NumSignatures(tx) = 2
    /\ tx.signatures[2] = SignatureDefault

(***************************************************************************)
(* Claims about precompile verification (checked under SpecPrecompiles)    *)
(***************************************************************************)
\* instruction i (1-based) of t has its program_id_index outside
\* account_keys
ProgramOutOfRange(t, i) ==
    t.message.instructions[i].program_id_index >= NumKeys(t)

\* instruction i (1-based) of t is rejected by precompile verification
PrecompileRejects(t, feature_set, i) ==
    /\ ~ProgramOutOfRange(t, i)
    /\ ~verify_if_precompile(
            t.message.account_keys[t.message.instructions[i].program_id_index + 1],
            t.message.instructions[i], t.message.instructions, feature_set).ok

Offending(t, feature_set) ==
    {i \in DOMAIN t.message.instructions :
        ProgramOutOfRange(t, i) \/ PrecompileRejects(t, feature_set, i)}

MarkerInstruction(t) == t.message.instructions[NONCED_TX_MARKER_IX_INDEX + 1]

MarkerExists(t) == Len(t.message.instructions) > NONCED_TX_MARKER_IX_INDEX

MarkerIsSystemProgram(t) ==
    /\ MarkerInstruction(t).program_id_index < NumKeys(t)
    /\ t.message.account_keys[MarkerInstruction(t).program_id_index + 1]
           = SystemProgramId

MarkerIsAdvanceNonce(t) ==
    limited_deserialize(MarkerInstruction(t).data) = Ok("AdvanceNonceAccount")

MarkerAccountWritable(t) ==
    /\ MarkerInstruction(t).accounts /= <<>>
    /\ is_writable(t.message, MarkerInstruction(t).accounts[1])

\* C18: uses_durable_nonce returns Some exactly when the instruction at the
\* marker index exists, its program_id_index resolves within account_keys
\* to the system program, its data decodes to AdvanceNonceAccount, and its
\* first account index exists and is writable according to the message;
\* the instruction returned is the one at the marker index; with any one
\* condition false the result is None; the transaction is not modified.
C18_DurableNonceDetection ==
    last.op = "uses_durable_nonce" =>
        /\ tx = last.pre
        /\ last.result.ok
        /\ last.result.val =
              IF /\ MarkerExists(tx)
                 /\ MarkerIsSystemProgram(tx)
                 /\ MarkerIsAdvanceNonce(tx)
                 /\ MarkerAccountWritable(tx)
              THEN Some(MarkerInstruction(tx))
              ELSE None

\* a transfer at the marker index, followed by an advance-nonce instruction
\* that meets every condition but its index
C18_Witness ==
    /\ last.op = "uses_durable_nonce"
    /\ last.result.val = None
    /\ Len(tx.message.instructions) = 2
    /\ MarkerIsSystemProgram(tx)
    /\ MarkerAccountWritable(tx)
    /\ ~MarkerIsAdvanceNonce(tx)
    /\ IsNonceMarker(tx.message, tx.message.instructions[2])

(***************************************************************************)
(* Claims about what signing leaves alone (checked under Spec)             *)
(***************************************************************************)
\* C19: after a successful try_partial_sign or try_partial_sign_unchecked
\* call given the recent_blockhash the message already stored, every slot
\* whose index is not among the call's positions holds the value it held
\* before the call, and the message is unchanged.
C19_SameBlockhashKeepsOtherSlots ==
    (/\ last.op \in {"try_partial_sign", "try_partial_sign_unchecked"}
     /\ last.result.ok
     /\ ~BlockhashChanged) =>
        /\ tx.message = last.pre.message
        /\ DOMAIN tx.signatures = DOMAIN last.pre.signatures
        /\ \A j \in DOMAIN tx.signatures :
              (j - 1) \notin CallPositions =>
                  tx.signatures[j] = last.pre.signatures[j]

\* a second pass that signs one slot and keeps the slot an earlier pass
\* signed
C19_Witness ==
    /\ last.op = "try_partial_sign"
    /\ last.result.ok
    /\ ~BlockhashChanged
    /\ \E j, k \in DOMAIN tx.signatures :
          /\ (j - 1) \notin CallPositions
          /\ last.pre.signatures[j] /= SignatureDefault
          /\ tx.signatures[j] = last.pre.signatures[j]
          /\ (k - 1) \in CallPositions
          /\ last.pre.signatures[k] = SignatureDefault
          /\ tx.signatures[k] /= SignatureDefault

\* C20: new_unsigned(message) creates num_required_signatures slots; after
\* any sequence of signing calls, successful or failing, with or without a
\* blockhash change, signatures.len() is still num_required_signatures and
\* verify_signatures_len() is true; a signing call neither adds nor
\* removes a slot.
C20_SlotCountFixed ==
    /\ Len(tx.signatures) = NumRequired(tx)
    /\ verify_signatures_len(tx)
    /\ last.op \in SigningOps =>
          /\ Len(tx.signatures) = Len(last.pre.signatures)
          /\ NumRequired(tx) = NumRequired(last.pre)

\* a failing call that changed the blockhash and cleared a signed slot
C20_Witness ==
    /\ last.op \in SigningOps
    /\ ~last.result.ok
    /\ BlockhashChanged
    /\ tx.message.recent_blockhash = last.args.recent_blockhash
    /\ Len(tx.signatures) = 2
    /\ \E j \in DOMAIN tx.signatures :
          /\ last.pre.signatures[j] /= SignatureDefault
          /\ tx.signatures[j] = SignatureDefault

\* the call made last got as far as the signers' batch signing, and that
\* failed
BatchSigningFailed ==
    /\ last.op \in SigningOps
    /\ ReachedPrimitive
    /\ ~try_sign_message(
            last.args.keypairs,
            Serialize([last.pre.message EXCEPT
                          !.recent_blockhash = last.args.recent_blockhash])).ok

\* C21: when the signers' batch signing fails inside
\* try_partial_sign_unchecked, reached directly or through try_partial_sign
\* or try_sign, the call returns that error and writes no signature; given
\* the stored blockhash the transaction is left as it was; given another
\* blockhash the transaction is left with that blockhash stored and every
\* slot holding the sentinel.
C21_FailedBatchSigning ==
    BatchSigningFailed =>
        /\ last.result =
              Err(try_sign_message(last.args.keypairs, message_data(tx)).err)
        /\ last.result.err /= "panic"
        /\ IF ~BlockhashChanged
           THEN tx = last.pre
           ELSE /\ tx.message =
                      [last.pre.message EXCEPT
                          !.recent_blockhash = last.args.recent_blockhash]
                /\ DOMAIN tx.signatures = DOMAIN last.pre.signatures
                /\ \A j \in DOMAIN tx.signatures :
                      tx.signatures[j] = SignatureDefault

\* a presigner's signature no longer verifies under the new blockhash: the
\* call fails, the signed slots are cleared, the new blockhash stays
C21_Witness ==
    /\ BatchSigningFailed
    /\ last.op = "try_sign"
    /\ BlockhashChanged
    /\ tx.message.recent_blockhash = last.args.recent_blockhash
    /\ Len(last.args.keypairs) = 2
    /\ \A j \in DOMAIN last.pre.signatures :
          last.pre.signatures[j] /= SignatureDefault
    /\ Len(tx.signatures) = 2
    /\ \A j \in DOMAIN tx.signatures : tx.signatures[j] = SignatureDefault

====
